---- MODULE Spec2Model ----
(***************************************************************************)
(* Model of colorconverter.py: one run of the command-line converter.      *)
(* parse_arguments -> determine_color_model -> validate_* -> convert_rgb_  *)
(* to_rgb -> fan-out of convert_with_xyz over observers x illuminants ->   *)
(* spectral recovery -> json.dumps / print.                                *)
(*                                                                         *)
(* Calls into the colour library are total functions on defined, non-None  *)
(* operands; what is modelled is the script's own control flow, its name   *)
(* binding (module globals against function locals) and the result         *)
(* dictionary res.                                                         *)
(***************************************************************************)
EXTENDS Integers, Sequences, FiniteSets, TLC

VARIABLES
    args,       \* the argparse namespace
    pc,         \* position of the run in the __main__ block
    model,      \* value returned by determine_color_model ("" before parsing)
    res,        \* the result dictionary: top-level key -> entry (a tree)
    g,          \* binding state of the module-level names
    validated,  \* what the validator of the input model returned, <<>> before
    csIdx,      \* index of the convert_rgb_to_rgb loop over RGB_COLOURSPACES
    obsIdx,     \* index of the observer loop of the fan-out
    illIdx,     \* index of the illuminant loop of the fan-out
    calls,      \* history: the convert_with_xyz calls made, in order
    nresult,    \* history: number of result() calls made
    last,       \* history: arguments and outcome of the last result() call
    exc,        \* the exception that ended the run, <<>> if none
    exitStatus, \* status passed to sys.exit, -1 if not called
    stderr,     \* messages written to sys.stderr
    out,        \* what was printed on stdout, in order
    decoded     \* history: the library conversions of RGB values made

vars == <<args, pc, model, res, g, validated, csIdx, obsIdx, illIdx, calls, nresult,
          last, exc, exitStatus, stderr, out, decoded>>

(***************************************************************************)
(* Python values.  None and False are sentinels of the string domain; an   *)
(* optional number is <<>> (None) or <<v>>.                                *)
(***************************************************************************)
NONE == "<None>"
FALSE_ == "<False>"
NoneVal == <<>>
Some(v) == <<v>>
IsNotNone(x) == x # NoneVal

\* Leaves of the result dictionary.
Str(s) == [t |-> "str", v |-> <<s>>, n |-> 0]
List(seq) == [t |-> "list", v |-> seq, n |-> Len(seq)]
Num(prov) == [t |-> "num", v |-> prov, n |-> 0]
Array(k, prov) == [t |-> "array", v |-> prov, n |-> k]
EmptyDict == [t |-> "dict", v |-> <<>>, n |-> 0]

\* isinstance(value, (list, np.ndarray))
IsListOrArray(x) == x.t \in {"list", "array"}

\* The elements of a list or array value, as leaves.
Items(x) ==
    IF x.t = "array"
    THEN [j \in 1..x.n |-> Num(Append(x.v, ToString(j)))]
    ELSE [j \in 1..Len(x.v) |-> Str(x.v[j])]

Min(a, b) == IF a <= b THEN a ELSE b

(***************************************************************************)
(* Module constants (lines 145-391).                                       *)
(***************************************************************************)
BITDEPTHS == {"8", "15+1", "16", "32"}
BITDEPTH_FACTOR == [b \in BITDEPTHS |->
    CASE b = "8" -> 255 [] b = "15+1" -> 32768 [] b = "16" -> 65535 [] OTHER -> 1]

VIS_SPECTRUM_MIN == 360
VIS_SPECTRUM_MAX == 830

RGB_ILLUMINANTS_LIST == <<
    "A", "C", "D50", "D55", "D65", "D75", "E", "FL1", "FL2", "FL3", "FL3.1",
    "FL3.2", "FL3.3", "FL3.4", "FL3.5", "FL3.6", "FL3.7", "FL3.8", "FL3.9",
    "FL3.10", "FL3.11", "FL3.12", "FL3.13", "FL3.14", "FL3.15", "FL4", "FL5",
    "FL6", "FL7", "FL8", "FL9", "FL10", "FL11", "FL12", "HP1", "HP2", "HP3",
    "HP4", "HP5", "ID50", "ID65", "LED-B1", "LED-B2", "LED-B3", "LED-B4",
    "LED-B5", "LED-BH1", "LED-RGB1", "LED-V1", "LED-V2",
    "ISO 7589 Sensitometric Daylight",
    "ISO 7589 Sensitometric Studio Tungsten",
    "ISO 7589 Sensitometric Photoflood",
    "ISO 7589 Sensitometric Printer",
    "ACES", "Blackmagic Wide Gamut", "DCI-P3" >>

CIE_ILLUMINANTS_LIST == <<
    "A", "D50", "D55", "D65", "D75", "FL1", "FL2", "FL3", "FL3.1",
    "FL3.2", "FL3.3", "FL3.4", "FL3.5", "FL3.6", "FL3.7", "FL3.8", "FL3.9",
    "FL3.10", "FL3.11", "FL3.12", "FL3.13", "FL3.14", "FL3.15", "FL4", "FL5",
    "FL6", "FL7", "FL8", "FL9", "FL10", "FL11", "FL12", "HP1", "HP2", "HP3",
    "HP4", "HP5", "ID50", "ID65", "LED-B1", "LED-B2", "LED-B3", "LED-B4",
    "LED-B5", "LED-BH1", "LED-RGB1", "LED-V1", "LED-V2" >>

ISO_7589_ILLUMINANTS_LIST == <<
    "ISO 7589 Sensitometric Daylight",
    "ISO 7589 Sensitometric Studio Tungsten",
    "ISO 7589 Sensitometric Photoflood",
    "ISO 7589 Sensitometric Printer" >>

CHROMATIC_ADAPTATION_TRANSFORMS == <<
    "Bianco 2010", "Bianco PC 2010", "Bradford", "CAT02", "CAT02 Brill 2008",
    "CAT16", "CMCCAT97", "CMCCAT2000", "Fairchild", "Sharp", "Von Kries",
    "XYZ Scaling" >>

STANDARD_OBSERVERS == <<
    "CIE 1931 2 Degree Standard Observer",
    "CIE 1964 10 Degree Standard Observer" >>

COLOR_MODELS_ALIASES == {"aces", "adobe1998", "prophoto", "ALEXA Wide Gamut"}

Range(s) == {s[i] : i \in DOMAIN s}

(***************************************************************************)
(* Tables of the colour library, as far as the script indexes them.        *)
(* CCS_ILLUMINANTS: the 2 degree observer carries every listed illuminant; *)
(* the 10 degree observer carries the CIE ones only.  SDS_ILLUMINANTS has  *)
(* no distribution for the three cinema white points.                      *)
(***************************************************************************)
CINEMA_WHITEPOINTS == {"ACES", "Blackmagic Wide Gamut", "DCI-P3"}

CCS_ILLUMINANTS == [o \in Range(STANDARD_OBSERVERS) |->
    IF o = "CIE 1931 2 Degree Standard Observer"
    THEN Range(RGB_ILLUMINANTS_LIST)
    ELSE Range(RGB_ILLUMINANTS_LIST)
             \ (Range(ISO_7589_ILLUMINANTS_LIST) \cup CINEMA_WHITEPOINTS)]

SDS_ILLUMINANTS == Range(RGB_ILLUMINANTS_LIST) \ CINEMA_WHITEPOINTS

\* RGB_COLOURSPACES.keys(): three of the colourspaces the templates describe
\* and one library alias, in the library's order; the value is the name of
\* the colourspace object the key maps to.
RGB_COLOURSPACES_KEYS == << "ACEScg", "ProPhoto RGB", "sRGB", "prophoto" >>
RGB_COLOURSPACES == [k \in Range(RGB_COLOURSPACES_KEYS) |->
    IF k = "prophoto" THEN "ProPhoto RGB" ELSE k]

(***************************************************************************)
(* COLOR_MODELS_TEMPLATES (lines 445-2733), for the RGB colourspaces above *)
(* and one model of every shape result() is called with.  A template is a  *)
(* map from its metadata keys to leaves; the text-only keys hold their own *)
(* name as content.                                                        *)
(***************************************************************************)
METADATA_KEYS == {"name", "section", "ui_group", "description", "illuminant",
                  "observer", "labels", "codes", "defaults", "units"}

Template(keys, illuminant, codes) ==
    [k \in keys |->
        IF k = "illuminant" THEN illuminant
        ELSE IF k = "codes" THEN List(codes)
        ELSE Str(k)]

RGB_KEYS == {"name", "section", "ui_group", "description", "illuminant",
             "observer", "labels", "codes"}
BASE_KEYS == {"name", "section", "ui_group", "description", "illuminant"}

TEMPLATE_MODELS == {"ACEScg", "ProPhoto RGB", "sRGB", "cmy", "hexadecimal",
    "cam16", "cct", "cielab", "ciexyz", "wavelength", "yrg", "pointer",
    "macadam", "srgb_css_color", "cri", "cfi", "lum_efficacy", "ssi", "sr_sd"}

COLOR_MODELS_TEMPLATES == [m \in TEMPLATE_MODELS |->
    CASE m = "ACEScg" -> Template(RGB_KEYS, Str("ACES"), <<"R", "G", "B">>)
      [] m = "ProPhoto RGB" -> Template(RGB_KEYS, Str("D50"), <<"R", "G", "B">>)
      [] m = "sRGB" -> Template(RGB_KEYS, Str("D65"), <<"R", "G", "B">>)
      [] m = "cmy" -> Template(RGB_KEYS, Str("none"), <<"C", "M", "Y">>)
      [] m = "hexadecimal" ->
            Template(BASE_KEYS \cup {"observer", "codes"}, Str("D65"), <<"Hex">>)
      [] m = "cam16" ->
            Template(RGB_KEYS \cup {"defaults"}, Str("all"),
                     <<"J", "C", "h", "s", "Q", "M", "H">>)
      [] m = "cct" -> Template(RGB_KEYS, Str("all"), <<"T<sub>cp</sub>">>)
      [] m = "cielab" -> Template(RGB_KEYS, Str("all"), <<"L*", "a*", "b*">>)
      [] m = "ciexyz" ->
            Template(BASE_KEYS \cup {"observer", "codes"}, Str("all"),
                     <<"X", "Y", "Z">>)
      [] m = "wavelength" ->
            Template((RGB_KEYS \ {"ui_group"}), Str("all"), <<"&gamma;">>)
      [] m = "yrg" -> Template(RGB_KEYS, List(<<"all">>), <<"Y", "r", "g">>)
      [] m = "pointer" -> Template(BASE_KEYS, Str("none"), <<>>)
      [] m = "macadam" ->
            Template(BASE_KEYS \cup {"observer"}, List(<<"A", "C", "D65">>), <<>>)
      [] m = "srgb_css_color" ->
            Template(BASE_KEYS \cup {"observer"}, Str("D65"), <<>>)
      [] m = "cri" -> Template(BASE_KEYS \cup {"codes"}, Str("all"),
                               <<"R<sub>a</sub>">>)
      [] m = "cfi" -> Template(BASE_KEYS \cup {"codes"}, Str("all"),
                               <<"R<sub>f</sub>">>)
      [] m = "lum_efficacy" ->
            Template(BASE_KEYS \cup {"codes", "units"}, Str("all"), <<"K">>)
      [] m = "ssi" -> Template(BASE_KEYS \cup {"codes"}, Str("all"), <<"SSI">>)
      [] OTHER -> Template(BASE_KEYS \cup {"codes"}, Str("D65"), <<"SPD">>)]

(***************************************************************************)
(* Nested dictionaries.  A tree is a map from key paths to leaves: it has  *)
(* key k at path p when some path of its domain extends p \o <<k>>; a bare *)
(* value is the tree with the single path <<>>, an empty dictionary the    *)
(* leaf EmptyDict.  res maps each top-level key to the tree stored there.  *)
(***************************************************************************)
IsPrefix(p, q) == Len(p) <= Len(q) /\ SubSeq(q, 1, Len(p)) = p

PathsUnder(d, p) == {q \in DOMAIN d : IsPrefix(p, q)}

\* k in d[p]
HasKey(d, p, k) == PathsUnder(d, Append(p, k)) # {}

\* d[p] is a dict (something that supports `in` and item assignment by key)
IsDict(d, p) ==
    \/ \E q \in DOMAIN d : IsPrefix(p, q) /\ Len(q) > Len(p)
    \/ (p \in DOMAIN d /\ d[p] = EmptyDict)

\* The subtree d[p], as a map from relative paths to leaves.
Sub(d, p) ==
    [r \in {SubSeq(q, Len(p) + 1, Len(q)) : q \in PathsUnder(d, p)} |-> d[p \o r]]

\* d[p] = tree, creating p's parents as needed: whatever was stored at or
\* below p is dropped, and so are the empty-dict leaves above p.
Assign(d, p, tree) ==
    LET kept == {q \in DOMAIN d : ~IsPrefix(p, q) /\ ~IsPrefix(q, p)}
        new == {p \o r : r \in DOMAIN tree}
    IN [q \in kept \cup new |->
            IF q \in new THEN tree[SubSeq(q, Len(p) + 1, Len(q))] ELSE d[q]]

Leaf(x) == [r \in {<<>>} |-> x]

\* A template as a tree.
TemplateTree(m) ==
    [p \in {<<k>> : k \in DOMAIN COLOR_MODELS_TEMPLATES[m]} |->
        COLOR_MODELS_TEMPLATES[m][p[1]]]

\* res = COLOR_MODELS_TEMPLATES (line 4060)
TemplatesRes == [m \in TEMPLATE_MODELS |-> TemplateTree(m)]

\* line 4081
ERROR_RES == [k \in {"error"} |-> Leaf(Str("RGB color space lookup failure"))]

(***************************************************************************)
(* result (lines 3995-4039): add a value to the result dictionary.         *)
(* The outcome is the new dictionary, or the exception the call raises.    *)
(***************************************************************************)
NoExc == <<>>
Raise(type, what, where) == <<type, what, where>>

\* d[p] exists and is not a dictionary
NonDictLeaf(d, p) == p \in DOMAIN d /\ d[p] # EmptyDict

\* dict(zip(codes, value)): pairs up to the shorter length, a repeated code
\* keeps its last value
ZipCodes(codes, items) ==
    LET k == Min(Len(codes), Len(items))
        LastAt(c) == CHOOSE j \in 1..k :
                        codes[j] = c /\ \A i \in (j + 1)..k : codes[i] # c
    IN IF k = 0 THEN Leaf(EmptyDict)
       ELSE [r \in {<<codes[j]>> : j \in 1..k} |-> items[LastAt(r[1])]]

\* Coded ignoring the codes of the entry
CodedAsGiven(t, value) == Leaf(value)

\* the value as stored in the entry t: lines 4013-4016
Coded(t, value) ==
    IF HasKey(t, <<>>, "codes")
    THEN ZipCodes(t[<<"codes">>].v,
                  IF IsListOrArray(value) THEN Items(value) ELSE <<value>>)
    ELSE Leaf(value)

\* Location with the illuminant above the observer
LocationIlluminantFirst(m, illuminant, observer, cat) ==
    IF observer # FALSE_
    THEN IF cat = NONE THEN <<m, illuminant, observer>>
         ELSE <<m, illuminant, observer, cat>>
    ELSE IF illuminant # FALSE_
    THEN IF cat = NONE THEN <<m, illuminant>> ELSE <<m, illuminant, cat>>
    ELSE <<m, "None">>

\* the path the value is stored at: lines 4020-4039
Location(m, illuminant, observer, cat) ==
    IF observer # FALSE_
    THEN IF cat = NONE THEN <<m, observer, illuminant>>
         ELSE <<m, observer, illuminant, cat>>
    ELSE IF illuminant # FALSE_
    THEN IF cat = NONE THEN <<m, illuminant>> ELSE <<m, illuminant, cat>>
    ELSE <<m, "None">>

\* result assigning a fresh dictionary to res[model]
resultReplacingEntry(d, m, value, illuminant, observer, cat) ==
    LET loc == Tail(Location(m, illuminant, observer, cat))
    IN IF m \notin DOMAIN d
       THEN [exc |-> Raise("KeyError", m, "result"), res |-> d]
       ELSE [exc |-> NoExc,
             res |-> [d EXCEPT ![m] = [q \in {loc} |-> value]]]

result(d, m, value, illuminant, observer, cat) ==
    LET loc == Tail(Location(m, illuminant, observer, cat))
        \* the dictionaries indexed on the way to loc, below d[m]
        inner == {SubSeq(loc, 1, i) : i \in 1..(Len(loc) - 1)}
    IN IF m \notin DOMAIN d
       THEN [exc |-> Raise("KeyError", m, "result"), res |-> d]
       ELSE IF ~IsDict(d[m], <<>>) \/ \E p \in inner : NonDictLeaf(d[m], p)
       THEN [exc |-> Raise("TypeError", m, "result"), res |-> d]
       ELSE [exc |-> NoExc,
             res |-> [d EXCEPT ![m] = Assign(d[m], loc, Coded(d[m], value))]]

\* A result() call, as data: what is stored and where.
Call(m, value, illuminant, observer, cat) ==
    [m |-> m, value |-> value, illuminant |-> illuminant,
     observer |-> observer, cat |-> cat]

NoCall == Call("", Str(""), FALSE_, FALSE_, NONE)

\* The state threaded through the statements of a handler: the exception
\* raised so far, the dictionary, the result() calls made and the last one.
Thread(d, n, l) == [exc |-> NoExc, res |-> d, n |-> n, last |-> l]

\* Run the result() calls cs in order; stop at the first that raises.
RECURSIVE ApplyResults(_, _)
ApplyResults(st, cs) ==
    IF cs = <<>> \/ st.exc # NoExc THEN st
    ELSE LET c == Head(cs)
             r == result(st.res, c.m, c.value, c.illuminant, c.observer, c.cat)
         IN ApplyResults([exc |-> r.exc, res |-> r.res, n |-> st.n + 1,
                          last |-> c],
                         Tail(cs))

(***************************************************************************)
(* Command-line arguments (parse_arguments, lines 2833-3026).              *)
(***************************************************************************)
MODELS == <<"CIELAB", "CIELCHab", "CIELUV", "CIELCHuv", "CIEXYZ", "RGB",
            "Spectrum", "Wavelength">>

\* the input values of each model, as determine_color_model tests them
MODEL_ARGS == [m \in Range(MODELS) |->
    CASE m = "CIELAB" -> <<"lstar", "astar", "bstar">>
      [] m = "CIELCHab" -> <<"lchab_l_val", "lchab_ch_val", "lchab_ab_val">>
      [] m = "CIELUV" -> <<"l_val", "u_val", "v_val">>
      [] m = "CIELCHuv" -> <<"lchuv_l_val", "lchuv_ch_val", "lchuv_uv_val">>
      [] m = "CIEXYZ" -> <<"x_val", "y_val", "z_val">>
      [] m = "RGB" -> <<"red", "green", "blue">>
      [] m = "Spectrum" -> <<"start", "stop", "interval", "data">>
      [] OTHER -> <<"wave">>]

INPUT_NAMES == UNION {Range(MODEL_ARGS[m]) : m \in Range(MODELS)}

OPTION_NAMES == {"bitdepth", "precalc", "observer", "input_illuminant", "cat",
                 "illuminant_list", "input_colorspace", "spectype"}

\* the argparse defaults
DEFAULT_OPTIONS ==
    [bitdepth |-> "8", precalc |-> "",
     observer |-> "CIE 1931 2 Degree Standard Observer",
     input_illuminant |-> "D65",
     cat |-> Some(CHROMATIC_ADAPTATION_TRANSFORMS),
     illuminant_list |-> "All", input_colorspace |-> "sRGB",
     spectype |-> NONE]

Namespace(options, inputs) ==
    [n \in OPTION_NAMES \cup INPUT_NAMES |->
        IF n \in OPTION_NAMES THEN options[n] ELSE inputs[n]]

\* FullSet testing the values for truth instead: 0 counts as missing
FullSetTruthy(a, m) ==
    \A i \in DOMAIN MODEL_ARGS[m] :
        IsNotNone(a[MODEL_ARGS[m][i]]) /\ a[MODEL_ARGS[m][i]] # Some(0)

\* every input value of the model is not None
FullSet(a, m) == \A i \in DOMAIN MODEL_ARGS[m] : IsNotNone(a[MODEL_ARGS[m][i]])

(***************************************************************************)
(* determine_color_model (lines 2799-2830): the first model, in the order  *)
(* of the if statements, whose input values are all not None; else None.   *)
(***************************************************************************)
determine_color_model(a) ==
    IF \E i \in DOMAIN MODELS : FullSet(a, MODELS[i])
    THEN MODELS[CHOOSE i \in DOMAIN MODELS :
                    /\ FullSet(a, MODELS[i])
                    /\ \A j \in 1..(i - 1) : ~FullSet(a, MODELS[j])]
    ELSE NONE

(***************************************************************************)
(* The validators (lines 3029-3230).  Each returns the values and the      *)
(* normalization factor, or raises ValueError (ok = FALSE).                *)
(***************************************************************************)
Between(lo, x, hi) == lo <= x /\ x <= hi

Accept(vals, factor) == [ok |-> TRUE, vals |-> vals, factor |-> factor]
Reject == [ok |-> FALSE, vals |-> <<>>, factor |-> 0]

\* validate_rgb_values with the maximum excluded
validate_rgb_values_exclusive(bitdepth, red, green, blue) ==
    IF bitdepth \notin DOMAIN BITDEPTH_FACTOR THEN Reject
    ELSE LET max_val == BITDEPTH_FACTOR[bitdepth]
         IN IF ~(0 <= red /\ red < max_val /\ 0 <= green /\ green < max_val
                  /\ 0 <= blue /\ blue < max_val)
            THEN Reject
            ELSE Accept(<<red, green, blue>>, max_val)

validate_rgb_values(bitdepth, red, green, blue) ==
    IF bitdepth \notin DOMAIN BITDEPTH_FACTOR THEN Reject
    ELSE LET max_val == BITDEPTH_FACTOR[bitdepth]
         IN IF ~(Between(0, red, max_val) /\ Between(0, green, max_val)
                  /\ Between(0, blue, max_val))
            THEN Reject
            ELSE Accept(<<red, green, blue>>, max_val)

CIELAB_DEPTH_VALUES == [b \in BITDEPTHS |->
    CASE b = "8" -> [L |-> <<0, 100>>, ab |-> <<-200, 200>>]
      [] b = "15+1" -> [L |-> <<0, 32768>>, ab |-> <<-25600, 25600>>]
      [] b = "16" -> [L |-> <<0, 65535>>, ab |-> <<-51200, 51200>>]
      [] OTHER -> [L |-> <<0, 1>>, ab |-> <<-1, 1>>]]

validate_cielab_values(bitdepth, lstar, astar, bstar) ==
    IF bitdepth \notin DOMAIN CIELAB_DEPTH_VALUES THEN Reject
    ELSE LET L == CIELAB_DEPTH_VALUES[bitdepth].L
             ab == CIELAB_DEPTH_VALUES[bitdepth].ab
         IN IF ~(Between(L[1], lstar, L[2]) /\ Between(ab[1], astar, ab[2])
                  /\ Between(ab[1], bstar, ab[2]))
            THEN Reject
            ELSE Accept(<<lstar, astar, bstar>>, BITDEPTH_FACTOR[bitdepth])

validate_cielchab_values(bitdepth, lchab_l_val, lchab_ch_val, lchab_ab_val) ==
    IF bitdepth \notin DOMAIN BITDEPTH_FACTOR THEN Reject
    ELSE IF ~(Between(0, lchab_l_val, 100) /\ Between(0, lchab_ch_val, 230)
               /\ Between(0, lchab_ab_val, 360))
    THEN Reject
    ELSE Accept(<<lchab_l_val, lchab_ch_val, lchab_ab_val>>,
                BITDEPTH_FACTOR[bitdepth])

CIELUV_VALUE_RANGES == [b \in BITDEPTHS |->
    CASE b = "8" -> [l_val |-> <<0, 100>>, u_v_val |-> <<-200, 200>>]
      [] b = "15+1" -> [l_val |-> <<0, 32768>>, u_v_val |-> <<-25600, 25600>>]
      [] b = "16" -> [l_val |-> <<0, 65535>>, u_v_val |-> <<-51200, 51200>>]
      [] OTHER -> [l_val |-> <<0, 1>>, u_v_val |-> <<-1, 1>>]]

\* validate_cieluv_values with u and v tested against the range of L
validate_cieluv_values_unsigned(bitdepth, l_val, u_val, v_val) ==
    IF bitdepth \notin DOMAIN BITDEPTH_FACTOR THEN Reject
    ELSE LET ranges == CIELUV_VALUE_RANGES[bitdepth]
         IN IF ~(Between(ranges.l_val[1], l_val, ranges.l_val[2])
                  /\ Between(ranges.l_val[1], u_val, ranges.l_val[2])
                  /\ Between(ranges.l_val[1], v_val, ranges.l_val[2]))
            THEN Reject
            ELSE Accept(<<l_val, u_val, v_val>>, BITDEPTH_FACTOR[bitdepth])

validate_cieluv_values(bitdepth, l_val, u_val, v_val) ==
    IF bitdepth \notin DOMAIN BITDEPTH_FACTOR THEN Reject
    ELSE LET ranges == CIELUV_VALUE_RANGES[bitdepth]
         IN IF ~(Between(ranges.l_val[1], l_val, ranges.l_val[2])
                  /\ Between(ranges.u_v_val[1], u_val, ranges.u_v_val[2])
                  /\ Between(ranges.u_v_val[1], v_val, ranges.u_v_val[2]))
            THEN Reject
            ELSE Accept(<<l_val, u_val, v_val>>, BITDEPTH_FACTOR[bitdepth])

\* CIELCHUV_DEPTH_VALUES in hundredths: 230 * 327.68 is 230 * 32768 / 100
CIELCHUV_DEPTH_VALUES == [b \in BITDEPTHS |->
    CASE b = "8" -> [L |-> <<0, 100 * 100>>, Ch |-> <<0, 230 * 100>>,
                     uv |-> <<0, 360 * 100>>]
      [] b = "15+1" -> [L |-> <<0, 32768 * 100>>, Ch |-> <<0, 230 * 32768>>,
                        uv |-> <<0, 360 * 32768>>]
      [] b = "16" -> [L |-> <<0, 65535 * 100>>, Ch |-> <<0, 230 * 65535>>,
                      uv |-> <<0, 360 * 65535>>]
      [] OTHER -> [L |-> <<0, 1 * 100>>, Ch |-> <<0, 230 * 100>>,
                   uv |-> <<0, 360 * 100>>]]

validate_cielchuv_values(bitdepth, lchuv_l_val, lchuv_ch_val, lchuv_uv_val) ==
    IF bitdepth \notin DOMAIN CIELCHUV_DEPTH_VALUES THEN Reject
    ELSE LET r == CIELCHUV_DEPTH_VALUES[bitdepth]
         IN IF ~(Between(r.L[1], 100 * lchuv_l_val, r.L[2])
                  /\ Between(r.Ch[1], 100 * lchuv_ch_val, r.Ch[2])
                  /\ Between(r.uv[1], 100 * lchuv_uv_val, r.uv[2]))
            THEN Reject
            ELSE Accept(<<lchuv_l_val, lchuv_ch_val, lchuv_uv_val>>,
                        BITDEPTH_FACTOR[bitdepth])

CIEXYZ_DEPTH_VALUES == [b \in BITDEPTHS |-> <<0, 1>>]

validate_ciexyz_values(bitdepth, x_val, y_val, z_val) ==
    IF bitdepth \notin DOMAIN CIEXYZ_DEPTH_VALUES THEN Reject
    ELSE LET r == CIEXYZ_DEPTH_VALUES[bitdepth]
         IN IF ~(Between(r[1], x_val, r[2]) /\ Between(r[1], y_val, r[2])
                  /\ Between(r[1], z_val, r[2]))
            THEN Reject
            ELSE Accept(<<x_val, y_val, z_val>>, BITDEPTH_FACTOR[bitdepth])

max_val_start == 750
min_val_start == 380
max_val_stop == 780
min_val_stop == 400
max_val_interval == 20
min_val_interval == 1

\* float("nan"), which --data accepts (type=float): a value apart from
\* every number, for which every comparison is false
NaN == -1000000
Less(x, y) == x # NaN /\ y # NaN /\ x < y

\* the exception of a division by zero, as a validator's outcome
ZeroDivision == [ok |-> FALSE, vals |-> <<"ZeroDivisionError">>, factor |-> 0]

\* the exception a validator's outcome stands for
Raised(v) == IF v.vals = <<>> THEN "ValueError" ELSE v.vals[1]

\* int((stop - start) / interval) + 1, for stop > start and interval >= 1
expected_data_length(start, stop, interval) == ((stop - start) \div interval) + 1

validate_spectrum_values(start, stop, interval, data) ==
    IF ~(Between(min_val_start, start, max_val_start)
          /\ Between(min_val_stop, stop, max_val_stop)
          /\ Between(min_val_interval, interval, max_val_interval))
    THEN Reject
    ELSE IF stop <= start THEN Reject
    ELSE IF interval = 0 THEN ZeroDivision
    ELSE IF Len(data) # expected_data_length(start, stop, interval) THEN Reject
    ELSE IF \E i \in DOMAIN data : Less(data[i], 0) \/ Less(1, data[i]) THEN Reject
    ELSE Accept(<<start, stop, interval, data>>, 0)

\* validate_wave_value with both ends of the visible spectrum excluded
validate_wave_value_exclusive(wave) ==
    IF ~(VIS_SPECTRUM_MIN < wave /\ wave < VIS_SPECTRUM_MAX) THEN Reject
    ELSE Accept(<<wave>>, 0)

validate_wave_value(wave) ==
    IF ~Between(VIS_SPECTRUM_MIN, wave, VIS_SPECTRUM_MAX) THEN Reject
    ELSE Accept(<<wave>>, 0)

(***************************************************************************)
(* Name binding.  g maps every module-level name the handlers read or      *)
(* write to "unbound", "None" or "value".  A name a function assigns       *)
(* without declaring it global is a local of that call and leaves g alone. *)
(***************************************************************************)
GLOBAL_NAMES == {"factor", "FACTOR", "rgb_norm", "linear_rgb", "cielab",
    "cielchab", "cieluv", "cielchuv", "ciexyz", "ciexyz_d65", "ciexyz_c",
    "sd", "sd_shape", "wave", "observer", "illuminant", "illuminant_in_xy",
    "illuminant_in_xyz", "illuminant_xy_c", "illuminant_xyz_c",
    "illuminant_xy_d65", "illuminant_xyz_d65"}

Unbound == [n \in GLOBAL_NAMES |-> "unbound"]

Bind(gl, names, kind) == [n \in GLOBAL_NAMES |-> IF n \in names THEN kind ELSE gl[n]]

\* Reading the names of a sequence in order: the exception of the first
\* read that fails (NameError for an unbound name), NoExc if none does.
RECURSIVE ReadAll(_, _, _)
ReadAll(gl, names, where) ==
    IF names = <<>> THEN NoExc
    ELSE IF gl[Head(names)] = "unbound"
    THEN Raise("NameError", Head(names), where)
    ELSE ReadAll(gl, Tail(names), where)

\* Using a name as an operand of arithmetic (x * 100)
UseValue(gl, name, where) ==
    IF gl[name] = "unbound" THEN Raise("NameError", name, where)
    ELSE IF gl[name] = "None" THEN Raise("TypeError", name, where)
    ELSE NoExc

\* Computed values: the provenance names the conversion and its operands.
StrVal(prov) == [t |-> "str", v |-> prov, n |-> 0]
MapVal(prov) == [t |-> "map", v |-> prov, n |-> 0]

\* RGB_COLOURSPACES[k].whitepoint_name, as the colourspace's template has it
whitepoint_name(k) == COLOR_MODELS_TEMPLATES[RGB_COLOURSPACES[k]]["illuminant"].v[1]

(***************************************************************************)
(* The decoding transfer function of the input colourspace.  An RGB value  *)
(* is represented by the number of times the decoding has been applied to  *)
(* the normalised input; a library conversion decodes once more when its   *)
(* apply_cctf_decoding argument is true.                                   *)
(***************************************************************************)
cctf_decoding(rgb) == rgb + 1

\* rgb_norm = normalize(red, green, blue, factor): nothing decoded yet
rgb_norm == 0

\* linear_rgb = RGB_COLOURSPACES[input_colorspace].cctf_decoding(rgb_norm)
linear_rgb == cctf_decoding(rgb_norm)

\* the linear values RGB_to_RGB and RGB_to_XYZ convert
RGB_to_RGB(rgb, apply_cctf_decoding) ==
    IF apply_cctf_decoding THEN cctf_decoding(rgb) ELSE rgb

RGB_to_XYZ(rgb, apply_cctf_decoding) ==
    IF apply_cctf_decoding THEN cctf_decoding(rgb) ELSE rgb

\* the RGB_to_RGB call of convert_rgb_to_rgb (lines 3245-3252), if made:
\* apply_cctf_decoding is False
RgbToRgbDecoded(gl, a, colorspaceid) ==
    IF /\ colorspaceid \notin COLOR_MODELS_ALIASES
       /\ a.cat # NoneVal
       /\ a.cat[1] # <<>>
       /\ gl["linear_rgb"] # "unbound"
    THEN {[call |-> "RGB_to_RGB", decodings |-> RGB_to_RGB(linear_rgb, FALSE)]}
    ELSE {}

(***************************************************************************)
(* convert_rgb_to_rgb (lines 3233-3268)                                    *)
(***************************************************************************)
convert_rgb_to_rgb(st, gl, a, colorspaceid) ==
    IF colorspaceid \in COLOR_MODELS_ALIASES THEN st
    ELSE IF a.cat = NoneVal
    THEN [st EXCEPT !.exc = Raise("TypeError", "use_cats", "convert_rgb_to_rgb")]
    ELSE IF a.cat[1] = <<>> THEN st
    ELSE LET use_cats == a.cat[1]
             wp == whitepoint_name(colorspaceid)
             same == whitepoint_name(a.input_colorspace) = wp
             read == ReadAll(gl, <<"linear_rgb", "factor">>, "convert_rgb_to_rgb")
             value(cat) ==
                 Array(3, <<"RGB_to_RGB", a.input_colorspace, colorspaceid, cat>>)
         IN IF read # NoExc THEN [st EXCEPT !.exc = read]
            ELSE IF same
            THEN ApplyResults(st, <<Call(colorspaceid, value(NONE), wp, FALSE_, NONE)>>)
            ELSE ApplyResults(st,
                    [j \in 1..Len(use_cats) |->
                        Call(colorspaceid, value(use_cats[j]), wp, FALSE_,
                             use_cats[j])])

(***************************************************************************)
(* convert_rgb_no_xyz (lines 3271-3328), for the template "cmy"            *)
(***************************************************************************)
convert_rgb_no_xyz(st, colorspaceid, illuminant) ==
    ApplyResults(st, <<Call("cmy", Array(3, <<"RGB_to_CMY", colorspaceid>>),
                            illuminant, FALSE_, NONE)>>)

(***************************************************************************)
(* The two chromaticities convert_xyz_to_rgb compares (lines 3845-3860).   *)
(* An array is the object it is (id) and the xy it holds; the whitepoint   *)
(* of an RGB colourspace is the 2 degree chromaticity of its illuminant,   *)
(* and np.array(...) makes a new object of it.                             *)
(***************************************************************************)
illuminant_in_xy(observer, illuminant) ==
    [id |-> <<"CCS_ILLUMINANTS", observer, illuminant>>,
     xy |-> <<observer, illuminant>>]

illuminant_rgb_in_xy(colorspaceid) ==
    [id |-> <<"np.array", colorspaceid, "whitepoint">>,
     xy |-> <<"CIE 1931 2 Degree Standard Observer", whitepoint_name(colorspaceid)>>]

\* a.all == b.all compares two bound methods, not the values of the arrays:
\* the methods are equal when they are bound to the same object
SameAllMethod(a, b) == a.id = b.id

\* lines 3859-3869: what is handed to XYZ_to_RGB
ciexyz_adapted(colorspaceid, observer, illuminant) ==
    IF SameAllMethod(illuminant_in_xy(observer, illuminant),
                     illuminant_rgb_in_xy(colorspaceid))
    THEN "ciexyz"
    ELSE "CMCCAT2000"

(***************************************************************************)
(* convert_xyz_to_rgb (lines 3834-3886)                                    *)
(***************************************************************************)
convert_xyz_to_rgb(st, gl, colorspaceid, observer, illuminant, cat) ==
    IF colorspaceid \in COLOR_MODELS_ALIASES THEN st
    ELSE IF colorspaceid \notin DOMAIN st.res
             \/ <<"illuminant">> \notin DOMAIN st.res[colorspaceid]
    THEN [st EXCEPT !.exc = Raise("KeyError", colorspaceid, "convert_xyz_to_rgb")]
    ELSE IF st.res[colorspaceid][<<"illuminant">>] # Str("all")
             /\ st.res[colorspaceid][<<"illuminant">>] # Str(illuminant)
    THEN st
    ELSE LET read == ReadAll(gl, <<"illuminant_in_xy", "ciexyz",
                                   "illuminant_in_xyz", "factor">>,
                             "convert_xyz_to_rgb")
             value == Array(3, <<"XYZ_to_RGB", colorspaceid, observer,
                                 illuminant, cat,
                                 ciexyz_adapted(colorspaceid, observer,
                                                illuminant)>>)
             stored == ApplyResults(st,
                          <<Call(colorspaceid, value, illuminant, observer, cat)>>)
         IN IF read # NoExc THEN [st EXCEPT !.exc = read]
            ELSE IF stored.exc # NoExc THEN stored
            ELSE convert_rgb_no_xyz(stored, colorspaceid, illuminant)

RECURSIVE ForColourspaces(_, _, _, _, _, _)
ForColourspaces(st, gl, keys, observer, illuminant, cat) ==
    IF keys = <<>> \/ st.exc # NoExc THEN st
    ELSE ForColourspaces(
            convert_xyz_to_rgb(st, gl, Head(keys), observer, illuminant, cat),
            gl, Tail(keys), observer, illuminant, cat)

(***************************************************************************)
(* The process_* helpers (lines 3331-3393): the module-level names each    *)
(* reads, in evaluation order, and whether the three values it returns     *)
(* (ciexyz, ciexyz_d65, ciexyz_c) are None.                                *)
(***************************************************************************)
PROCESS_READS == [m \in Range(MODELS) \ {"RGB"} |->
    CASE m = "CIELCHuv" ->
            <<"cielchuv", "illuminant_in_xy", "illuminant_xy_d65", "illuminant_xy_c">>
      [] m \in {"CIELAB", "CIELCHab"} ->
            <<"cielab", "illuminant_in_xy", "illuminant_xy_d65", "illuminant_xy_c">>
      [] m = "CIELUV" ->
            <<"cieluv", "illuminant_in_xy", "illuminant_xy_d65", "illuminant_xy_c">>
      [] m = "CIEXYZ" ->
            <<"illuminant_xyz_d65", "illuminant_in_xyz", "illuminant_xyz_c">>
      [] m = "Spectrum" ->
            <<"observer", "illuminant", "sd", "sd_shape", "illuminant_xyz_d65",
              "illuminant_in_xyz", "illuminant_xyz_c">>
      [] OTHER -> <<"observer">>]

PROCESS_RETURNS == [m \in Range(MODELS) \ {"RGB"} |->
    IF m \in {"CIEXYZ", "Spectrum", "Wavelength"}
    THEN <<"value", "value", "None">>
    ELSE <<"value", "value", "value">>]

\* the names convert_with_xyz declares global (lines 3398-3399)
CONVERT_WITH_XYZ_GLOBALS == {"cielab", "cielchab", "cieluv", "cielchuv", "hsl",
    "illuminant_in_xyz", "illuminant_in_xy", "ciexyz", "ciexyz_d65",
    "ciexyz_c", "sd", "sd_shape", "model"}

\* an assignment inside convert_with_xyz
AssignIn(gl, names, kind) == Bind(gl, names \cap CONVERT_WITH_XYZ_GLOBALS, kind)

(***************************************************************************)
(* convert_with_xyz (lines 3396-3831).  The outcome is the threaded state  *)
(* st and the bindings gl; an exception stops the function where it is     *)
(* raised, keeping what was stored and bound before.                       *)
(***************************************************************************)
Outcome(st, gl) == [st |-> st, g |-> gl]
Fail(st, gl, e) == [st |-> [st EXCEPT !.exc = e], g |-> gl]

\* lines 3401-3404: the illuminant is skipped
Skipped(mdl, observer, illuminant) ==
    \/ (mdl = "Spectrum" /\ illuminant \notin SDS_ILLUMINANTS)
    \/ illuminant \notin CCS_ILLUMINANTS[observer]

\* lines 3407-3417: the illuminant coordinates
BindIlluminants(gl) ==
    AssignIn(gl, {"illuminant_in_xy", "illuminant_in_xyz", "illuminant_xy_c",
                  "illuminant_xyz_c", "illuminant_xy_d65", "illuminant_xyz_d65"},
             "value")

\* lines 3430-3431: ciexyz, ciexyz_d65, ciexyz_c = model_functions[model]()
BindProcessed(gl, mdl) ==
    LET r == PROCESS_RETURNS[mdl]
    IN AssignIn(AssignIn(AssignIn(gl, {"ciexyz"}, r[1]), {"ciexyz_d65"}, r[2]),
                {"ciexyz_c"}, r[3])

\* lines 3441-3456: the loop over cats ends here; its last pass leaves
\* ciexyz, ciexyz_d65, ciexyz_c and cat behind
BindRgbToXyz(gl) == AssignIn(gl, {"ciexyz", "ciexyz_d65", "ciexyz_c"}, "value")

LastCat(cats) == cats[Len(cats)]

\* lines 3460-3493: the CIELAB and CIELUV values the function computes itself
BindLabLuv(gl, mdl) ==
    LET g1 == IF mdl \notin {"CIELAB", "CIELCHab"}
              THEN AssignIn(gl, {"cielab", "cielchab"}, "value") ELSE gl
        g2 == IF mdl = "CIELUV" THEN AssignIn(g1, {"cielchuv"}, "value")
              ELSE IF mdl = "CIELCHuv" THEN AssignIn(g1, {"cieluv"}, "value")
              ELSE AssignIn(g1, {"cieluv", "cielchuv"}, "value")
    IN g2

\* the names read between line 3458 and the first result() call
BodyReads(mdl) ==
    IF mdl \in {"CIELAB", "CIELCHab"} THEN <<"cielab">>
    ELSE IF mdl = "CIELUV" THEN <<"cieluv">>
    ELSE <<>>

\* The result() calls of one convert_with_xyz call in source order, for the
\* templates modelled: EarlyResults are those of lines 3711-3716 (macadam and
\* convert_to_css), BlockResults those of lines 3738-3826.
XyzValue(m, k, observer, illuminant, cat) == Array(k, <<m, observer, illuminant, cat>>)

EarlyResults(observer, illuminant, cat) ==
    (IF illuminant \in {"A", "C", "D65"}
     THEN <<Call("macadam", StrVal(<<"macadam", observer, illuminant>>),
                 illuminant, FALSE_, NONE)>>
     ELSE <<>>)
    \o <<
      Call("hexadecimal", StrVal(<<"hexadecimal", observer, illuminant, cat>>),
           FALSE_, FALSE_, NONE),
      Call("srgb_css_color", StrVal(<<"srgb_css_color", observer, illuminant, cat>>),
           illuminant, observer, cat) >>

BlockResults(mdl, observer, illuminant, cat) ==
    <<
      Call("cam16", XyzValue("cam16", 8, observer, illuminant, cat),
           illuminant, observer, cat),
      Call("cct", Num(<<"cct", observer, illuminant, cat>>),
           illuminant, observer, cat),
      Call("cielab", XyzValue("cielab", 3, observer, illuminant, cat),
           illuminant, observer, cat),
      Call("ciexyz", XyzValue("ciexyz", 3, observer, illuminant, cat),
           illuminant, observer, cat),
      Call("pointer", StrVal(<<"pointer", observer, illuminant, cat>>),
           FALSE_, FALSE_, NONE),
      Call("wavelength",
           IF mdl = "Wavelength" THEN Num(<<"wave">>) ELSE Str(""),
           FALSE_, FALSE_, NONE),
      Call("yrg", XyzValue("yrg", 3, observer, illuminant, cat),
           FALSE_, FALSE_, NONE) >>

\* the models above that are stored per observer, illuminant and cat
XYZ_MODELS == {"srgb_css_color", "cam16", "cct", "cielab", "ciexyz"}

\* lines 3458-3831, once ciexyz, ciexyz_d65, ciexyz_c and cat are set
XyzBody(st, gl, mdl, observer, illuminant, cat) ==
    LET where == "convert_with_xyz"
        e1 == UseValue(gl, "ciexyz", where)
        e2 == ReadAll(gl, BodyReads(mdl), where)
        g2 == BindLabLuv(gl, mdl)
        e3 == UseValue(g2, "ciexyz_d65", where)
        e4 == UseValue(g2, "ciexyz_c", where)
        s1 == ApplyResults(st, EarlyResults(observer, illuminant, cat))
        e5 == IF mdl = "Wavelength" THEN ReadAll(g2, <<"wave">>, where) ELSE NoExc
        s2 == ApplyResults(s1, BlockResults(mdl, observer, illuminant, cat))
    IN IF e1 # NoExc THEN Fail(st, gl, e1)
       ELSE IF e2 # NoExc THEN Fail(st, gl, e2)
       ELSE IF e3 # NoExc THEN Fail(st, g2, e3)
       ELSE IF e4 # NoExc THEN Fail(st, g2, e4)
       ELSE IF s1.exc # NoExc THEN Outcome(s1, g2)
       ELSE IF e5 # NoExc THEN Fail(s1, g2, e5)
       ELSE IF s2.exc # NoExc \/ mdl = "RGB" THEN Outcome(s2, g2)
       ELSE Outcome(ForColourspaces(s2, g2, RGB_COLOURSPACES_KEYS,
                                    observer, illuminant, cat), g2)

convert_with_xyz(st, gl, a, mdl, observer, illuminant) ==
    IF Skipped(mdl, observer, illuminant) THEN Outcome(st, gl)
    ELSE LET where == "convert_with_xyz"
             g1 == BindIlluminants(gl)
         IN IF mdl # "RGB"
            THEN LET e == ReadAll(g1, PROCESS_READS[mdl], "process")
                 IN IF e # NoExc THEN Fail(st, g1, e)
                    ELSE XyzBody(st, BindProcessed(g1, mdl), mdl, observer,
                                 illuminant, NONE)
            ELSE IF a.cat = NoneVal
            THEN Fail(st, g1, Raise("TypeError", "use_cats", where))
            ELSE IF a.cat[1] = <<>>
            THEN XyzBody(st, g1, mdl, observer, illuminant, NONE)
            ELSE LET e == ReadAll(g1, <<"linear_rgb">>, where)
                 IN IF e # NoExc THEN Fail(st, g1, e)
                    ELSE XyzBody(st, BindRgbToXyz(g1), mdl, observer,
                                 illuminant, LastCat(a.cat[1]))

\* the RGB_to_XYZ calls of convert_with_xyz (lines 3446-3452), if made:
\* apply_cctf_decoding=True
RgbToXyzDecoded(gl, a, mdl, observer, illuminant) ==
    IF /\ mdl = "RGB"
       /\ ~Skipped(mdl, observer, illuminant)
       /\ a.cat # NoneVal
       /\ a.cat[1] # <<>>
       /\ gl["linear_rgb"] # "unbound"
    THEN {[call |-> "RGB_to_XYZ", decodings |-> RGB_to_XYZ(linear_rgb, TRUE)]}
    ELSE {}

(***************************************************************************)
(* The run: the __main__ block (lines 4042-4312).                          *)
(***************************************************************************)
\* --precalc: "" or a JSON object; "cct" stands for '{"cct": {"None": 6500}}'
PRECALC_CHOICES == {"", "cct"}

\* res | json.loads(precalc): the keys of the loaded object replace the
\* templates of the same name
MergePrecalc(d, precalc) ==
    IF precalc = "" THEN d
    ELSE [k \in DOMAIN d \cup {"cct"} |->
            IF k = "cct" THEN [r \in {<<"None">>} |-> Num(<<"precalc">>)]
            ELSE d[k]]

IlluminantList(a) ==
    CASE a.illuminant_list = "All" -> RGB_ILLUMINANTS_LIST
      [] a.illuminant_list = "CIE" -> CIE_ILLUMINANTS_LIST
      [] OTHER -> ISO_7589_ILLUMINANTS_LIST

\* Validated with validators that accept whatever they are given
ValidatedAccepting(a, mdl) == Accept(<<>>, 1)

\* the validator of the model, applied to the model's arguments
Validated(a, mdl) ==
    LET v(n) == a[n][1]
    IN CASE mdl = "RGB" ->
              validate_rgb_values(a.bitdepth, v("red"), v("green"), v("blue"))
         [] mdl = "CIELAB" ->
              validate_cielab_values(a.bitdepth, v("lstar"), v("astar"), v("bstar"))
         [] mdl = "CIELCHab" ->
              validate_cielchab_values(a.bitdepth, v("lchab_l_val"),
                                       v("lchab_ch_val"), v("lchab_ab_val"))
         [] mdl = "CIELUV" ->
              validate_cieluv_values(a.bitdepth, v("l_val"), v("u_val"), v("v_val"))
         [] mdl = "CIELCHuv" ->
              validate_cielchuv_values(a.bitdepth, v("lchuv_l_val"),
                                       v("lchuv_ch_val"), v("lchuv_uv_val"))
         [] mdl = "CIEXYZ" ->
              validate_ciexyz_values(a.bitdepth, v("x_val"), v("y_val"), v("z_val"))
         [] mdl = "Spectrum" ->
              validate_spectrum_values(v("start"), v("stop"), v("interval"), v("data"))
         [] OTHER -> validate_wave_value(v("wave"))

\* MainBinds with linear_rgb left unassigned on the RGB branch
MainBindsWithoutLinearRgb(a, mdl) ==
    CASE mdl = "RGB" -> {"factor", "rgb_norm"}
      [] mdl \in {"CIELAB", "CIELCHab"} -> {"factor", "cielab", "cielchab"}
      [] mdl = "CIELUV" -> {"factor", "cieluv"}
      [] mdl = "CIELCHuv" -> {"factor", "cielchuv"}
      [] mdl = "CIEXYZ" -> {"factor", "ciexyz"}
      [] mdl = "Spectrum" -> {"FACTOR", "sd", "sd_shape"}
      [] OTHER -> {"wave", "FACTOR"}

\* the names the branch of the model binds at module level (lines 4066-4252)
MainBinds(a, mdl) ==
    CASE mdl = "RGB" ->
            IF a.input_colorspace \in DOMAIN RGB_COLOURSPACES
            THEN {"factor", "rgb_norm", "linear_rgb"}
            ELSE {"factor", "rgb_norm"}
      [] mdl \in {"CIELAB", "CIELCHab"} -> {"factor", "cielab", "cielchab"}
      [] mdl = "CIELUV" -> {"factor", "cieluv"}
      [] mdl = "CIELCHuv" -> {"factor", "cielchuv"}
      [] mdl = "CIEXYZ" -> {"factor", "ciexyz"}
      [] mdl = "Spectrum" -> {"FACTOR", "sd", "sd_shape"}
      [] OTHER -> {"wave", "FACTOR"}

\* lines 4224-4247: the results of an emissive spectral distribution
EmissiveResults(interval) ==
    (IF interval <= 5 THEN <<Call("cfi", Num(<<"cfi">>), FALSE_, FALSE_, NONE)>>
     ELSE <<>>)
    \o << Call("cri", Num(<<"cri">>), FALSE_, FALSE_, NONE),
          Call("lum_efficacy", Num(<<"lum_efficacy">>), FALSE_, FALSE_, NONE) >>
    \o [i \in DOMAIN CIE_ILLUMINANTS_LIST |->
            Call("ssi", Num(<<"ssi", CIE_ILLUMINANTS_LIST[i]>>),
                 CIE_ILLUMINANTS_LIST[i], FALSE_, NONE)]

(***************************************************************************)
(* The command lines explored.                                             *)
(***************************************************************************)
MaxModelsTouched == 2

\* the value of a supplied argument in PresenceArgs
PRESENT_VALUES == {0, 1}
NUMBERS == {-1, 0, 1, 300}
WAVES == {359, 360, 500, 830, 831}
SPECTRA == { <<380, 400, 10, <<0, 1, 1>> >>, <<380, 400, 10, <<0, 1>> >>,
             <<380, 400, 10, <<0, 2, 1>> >>, <<400, 400, 10, <<1>> >>,
             <<380, 400, 0, <<0, 1, 1>> >>, <<380, 400, 5, <<0, 0, 1, 1, 1>> >>,
             <<360, 400, 20, <<0, 1, 1>> >> }
CAT_CHOICES == { Some(CHROMATIC_ADAPTATION_TRANSFORMS), Some(<<"Bradford">>),
                 Some(<<"CAT02", "Bradford">>), Some(<<>>), NoneVal }
COLORSPACE_CHOICES == {"sRGB", "ProPhoto RGB", "prophoto", "NoSuchSpace"}

\* the arguments of one model, set to the values xs
InputsFor(m, xs) ==
    [n \in INPUT_NAMES |->
        IF \E i \in DOMAIN MODEL_ARGS[m] : MODEL_ARGS[m][i] = n
        THEN Some(xs[CHOOSE i \in DOMAIN MODEL_ARGS[m] : MODEL_ARGS[m][i] = n])
        ELSE NoneVal]

\* the arguments of one model: all of them, or all but one
Picks ==
    UNION { {Range(MODEL_ARGS[m])}
                \cup {Range(MODEL_ARGS[m]) \ {n} : n \in Range(MODEL_ARGS[m])}
            : m \in Range(MODELS) }

\* the sets of supplied arguments that touch at most k models
RECURSIVE PickSets(_)
PickSets(k) ==
    IF k = 0 THEN {{}}
    ELSE LET prev == PickSets(k - 1)
         IN prev \cup {P \cup q : P \in prev, q \in Picks}

ShortOptions == [DEFAULT_OPTIONS EXCEPT !.illuminant_list = "ISO_7589"]

\* any mix of supplied and missing input values
PresenceArgs ==
    { Namespace([ShortOptions EXCEPT !.bitdepth = "32"],
                [n \in INPUT_NAMES |->
                    IF n \in P THEN (IF n = "data" THEN Some(<<x>>) ELSE Some(x))
                    ELSE NoneVal])
        : P \in PickSets(MaxModelsTouched), x \in PRESENT_VALUES }

\* the full set of one model, in and out of range, at every bit depth
ValueArgs ==
    { Namespace([ShortOptions EXCEPT !.bitdepth = b], InputsFor(m, xs))
        : m \in Range(MODELS) \ {"Spectrum", "Wavelength"},
          xs \in NUMBERS \X NUMBERS \X NUMBERS, b \in BITDEPTHS }
    \cup
    { Namespace([ShortOptions EXCEPT !.spectype = t], InputsFor("Spectrum", xs))
        : xs \in SPECTRA, t \in {NONE, "Emissive"} }
    \cup
    { Namespace([ShortOptions EXCEPT !.precalc = p], InputsFor("Wavelength", <<w>>))
        : w \in WAVES, p \in PRECALC_CHOICES }

\* an input in range for each model
CANONICAL == [m \in Range(MODELS) |->
    CASE m = "Spectrum" -> <<380, 400, 10, <<0, 1, 1>> >>
      [] m = "Wavelength" -> <<500>>
      [] OTHER -> <<0, 1, 1>>]

\* the options: every illuminant list under the defaults, the other options
\* with the short list
OptionArgs ==
    { Namespace([DEFAULT_OPTIONS EXCEPT !.illuminant_list = l],
                InputsFor(m, CANONICAL[m]))
        : m \in Range(MODELS), l \in {"All", "CIE", "ISO_7589"} }
    \cup
    { Namespace([ShortOptions EXCEPT !.cat = c, !.input_colorspace = s,
                                     !.observer = o, !.precalc = p,
                                     !.input_illuminant = i],
                InputsFor("RGB", CANONICAL["RGB"]))
        : c \in CAT_CHOICES, s \in COLORSPACE_CHOICES,
          o \in Range(STANDARD_OBSERVERS), p \in PRECALC_CHOICES,
          i \in {"D65", "D50"} }

\* RGB values at and around the ends of the range of every bit depth
RGB_BOUNDARY(b) ==
    {-1, 0, BITDEPTH_FACTOR[b] - 1, BITDEPTH_FACTOR[b], BITDEPTH_FACTOR[b] + 1}

RgbBoundaryArgs ==
    UNION { { Namespace([ShortOptions EXCEPT !.bitdepth = b], InputsFor("RGB", xs))
                : xs \in RGB_BOUNDARY(b) \X RGB_BOUNDARY(b) \X RGB_BOUNDARY(b) }
            : b \in BITDEPTHS }

\* the state of the interpreter when the __main__ block starts
Start ==
    /\ pc = "start"
    /\ model = ""
    /\ res = TemplatesRes
    /\ g = Unbound
    /\ validated = <<>>
    /\ csIdx = 1
    /\ obsIdx = 1
    /\ illIdx = 1
    /\ calls = <<>>
    /\ nresult = 0
    /\ last = NoCall
    /\ exc = NoExc
    /\ exitStatus = -1
    /\ stderr = <<>>
    /\ out = <<>>
    /\ decoded = {}

Init ==
    /\ args \in PresenceArgs \cup ValueArgs \cup OptionArgs
    /\ Start

\* What print() and print_help() write on stdout.
JsonDocument(d) == [kind |-> "json", doc |-> d]
HelpText == [kind |-> "help", doc |-> <<>>]

\* parse_arguments (lines 3016-3026) and MyParser.error (lines 2793-2796):
\* error() prints the help, writes the message on stderr and exits with 2
ParseArguments ==
    /\ pc = "start"
    /\ model' = determine_color_model(args)
    /\ IF model' = NONE
       THEN /\ out' = Append(out, HelpText)
            /\ stderr' = Append(stderr,
                "Error: Full set of input values for one of the color models is required")
            /\ exitStatus' = 2
            /\ pc' = "exit"
       ELSE /\ pc' = "main"
            /\ UNCHANGED <<stderr, exitStatus, out>>
    /\ UNCHANGED <<args, res, g, validated, csIdx, obsIdx, illIdx, calls,
                   nresult, last, exc, decoded>>

\* lines 4058-4252: the templates, --precalc, the branch of the input model
Main ==
    /\ pc = "main"
    /\ LET d0 == MergePrecalc(TemplatesRes, args.precalc)
           v == Validated(args, model)
           g1 == Bind(g, MainBinds(args, model), "value")
           emissive == model = "Spectrum" /\ args.spectype = "Emissive"
           st == IF emissive
                 THEN ApplyResults(Thread(d0, nresult, last),
                                   EmissiveResults(args.interval[1]))
                 ELSE Thread(d0, nresult, last)
       IN IF ~v.ok
          THEN /\ exc' = Raise(Raised(v), model, "validate")
               /\ pc' = "raised"
               /\ res' = d0
               /\ UNCHANGED <<g, validated, nresult, last>>
          ELSE /\ validated' = [vals |-> v.vals, factor |-> v.factor]
               /\ g' = IF emissive THEN Bind(g1, {"illuminant"}, "value") ELSE g1
               /\ nresult' = st.n
               /\ last' = st.last
               /\ exc' = st.exc
               /\ IF st.exc # NoExc
                  THEN pc' = "raised" /\ res' = st.res
                  ELSE IF model = "RGB"
                  THEN IF args.input_colorspace \in DOMAIN RGB_COLOURSPACES
                       THEN pc' = "rgb2rgb" /\ res' = st.res
                       ELSE pc' = "fanout" /\ res' = ERROR_RES
                  ELSE pc' = "fanout" /\ res' = st.res
    /\ UNCHANGED <<args, model, csIdx, obsIdx, illIdx, calls, exitStatus,
                   stderr, out, decoded>>

\* lines 4077-4079: one pass of the loop over RGB_COLOURSPACES.keys()
ConvertRgbToRgb ==
    /\ pc = "rgb2rgb"
    /\ LET st == convert_rgb_to_rgb(Thread(res, nresult, last), g, args,
                                    RGB_COLOURSPACES_KEYS[csIdx])
       IN /\ res' = st.res
          /\ nresult' = st.n
          /\ last' = st.last
          /\ exc' = st.exc
          /\ IF st.exc # NoExc THEN pc' = "raised" /\ csIdx' = csIdx
             ELSE IF csIdx < Len(RGB_COLOURSPACES_KEYS)
             THEN pc' = "rgb2rgb" /\ csIdx' = csIdx + 1
             ELSE pc' = "fanout" /\ csIdx' = csIdx
    /\ decoded' = decoded \cup RgbToRgbDecoded(g, args, RGB_COLOURSPACES_KEYS[csIdx])
    /\ UNCHANGED <<args, model, g, validated, obsIdx, illIdx, calls, exitStatus,
                   stderr, out>>

\* lines 4254-4264: one call of the fan-out
ConvertWithXyz ==
    /\ pc = "fanout"
    /\ LET observer == STANDARD_OBSERVERS[obsIdx]
           illuminant == IlluminantList(args)[illIdx]
           o == convert_with_xyz(Thread(res, nresult, last),
                                 Bind(g, {"observer", "illuminant"}, "value"),
                                 args, model, observer, illuminant)
       IN /\ calls' = Append(calls, <<observer, illuminant>>)
          /\ res' = o.st.res
          /\ nresult' = o.st.n
          /\ last' = o.st.last
          /\ exc' = o.st.exc
          /\ g' = o.g
          /\ IF o.st.exc # NoExc
             THEN pc' = "raised" /\ UNCHANGED <<obsIdx, illIdx>>
             ELSE IF illIdx < Len(IlluminantList(args))
             THEN pc' = "fanout" /\ illIdx' = illIdx + 1 /\ obsIdx' = obsIdx
             ELSE IF obsIdx < Len(STANDARD_OBSERVERS)
             THEN pc' = "fanout" /\ illIdx' = 1 /\ obsIdx' = obsIdx + 1
             ELSE pc' = "recovery" /\ UNCHANGED <<obsIdx, illIdx>>
    /\ decoded' = decoded \cup RgbToXyzDecoded(g, args, model,
                                               STANDARD_OBSERVERS[obsIdx],
                                               IlluminantList(args)[illIdx])
    /\ UNCHANGED <<args, model, validated, csIdx, exitStatus, stderr, out>>

\* lines 4266-4308: spectral recovery, for every input but a spectrum
SpectralRecovery ==
    /\ pc = "recovery"
    /\ LET e == UseValue(g, "ciexyz_d65", "main")
           st == ApplyResults(Thread(res, nresult, last),
                    <<Call("sr_sd", MapVal(<<"XYZ_to_sd_Jakob2019">>),
                           args.input_illuminant,
                           "CIE 1931 2 Degree Standard Observer", NONE)>>)
       IN IF model = "Spectrum"
          THEN pc' = "dump" /\ UNCHANGED <<res, nresult, last, exc>>
          ELSE IF e # NoExc
          THEN pc' = "raised" /\ exc' = e /\ UNCHANGED <<res, nresult, last>>
          ELSE /\ res' = st.res
               /\ nresult' = st.n
               /\ last' = st.last
               /\ exc' = st.exc
               /\ pc' = IF st.exc # NoExc THEN "raised" ELSE "dump"
    /\ UNCHANGED <<args, model, g, validated, csIdx, obsIdx, illIdx, calls,
                   exitStatus, stderr, out, decoded>>

\* lines 4310-4312: json.dumps and print
Dump ==
    /\ pc = "dump"
    /\ out' = Append(out, JsonDocument(res))
    /\ pc' = "done"
    /\ UNCHANGED <<args, model, res, g, validated, csIdx, obsIdx, illIdx, calls,
                   nresult, last, exc, exitStatus, stderr, decoded>>

Next ==
    \/ ParseArguments
    \/ Main
    \/ ConvertRgbToRgb
    \/ ConvertWithXyz
    \/ SpectralRecovery
    \/ Dump

Spec == Init /\ [][Next]_vars

(***************************************************************************)
(* The same run, started on RGB values around the ends of the ranges.      *)
(***************************************************************************)
InitRgbBounds ==
    /\ args \in RgbBoundaryArgs
    /\ Start

SpecRgbBounds == InitRgbBounds /\ [][Next]_vars

(***************************************************************************)
(* result() on its own: any short sequence of calls, on the templates and  *)
(* on the templates merged with --precalc.                                 *)
(***************************************************************************)
MaxResultCalls == 2

\* a model with codes, one without, and one --precalc replaces
RESULT_VALUES == [m \in {"cielab", "pointer", "cct"} |->
    CASE m = "cielab" -> Array(3, <<"value">>)
      [] m = "pointer" -> StrVal(<<"value">>)
      [] OTHER -> Num(<<"value">>)]

ResultCalls ==
    { Call(m, RESULT_VALUES[m], i, o, c)
        : m \in DOMAIN RESULT_VALUES, i \in {FALSE_, "D65"},
          o \in {FALSE_, "CIE 1931 2 Degree Standard Observer"},
          c \in {NONE, "Bradford"} }

InitResult ==
    /\ args = Namespace(DEFAULT_OPTIONS, InputsFor("RGB", CANONICAL["RGB"]))
    /\ pc = "result"
    /\ model = "RGB"
    /\ res \in {MergePrecalc(TemplatesRes, p) : p \in PRECALC_CHOICES}
    /\ g = Unbound
    /\ validated = <<>>
    /\ csIdx = 1
    /\ obsIdx = 1
    /\ illIdx = 1
    /\ calls = <<>>
    /\ nresult = 0
    /\ last = NoCall
    /\ exc = NoExc
    /\ exitStatus = -1
    /\ stderr = <<>>
    /\ out = <<>>
    /\ decoded = {}

\* one call of result (lines 3995-4039)
ResultCall ==
    /\ pc = "result"
    /\ exc = NoExc
    /\ nresult < MaxResultCalls
    /\ \E c \in ResultCalls :
          LET st == ApplyResults(Thread(res, nresult, last), <<c>>)
          IN /\ res' = st.res
             /\ nresult' = st.n
             /\ last' = st.last
             /\ exc' = st.exc
    /\ UNCHANGED <<args, pc, model, g, validated, csIdx, obsIdx, illIdx, calls,
                   exitStatus, stderr, out, decoded>>

SpecResult == InitResult /\ [][ResultCall]_vars

(***************************************************************************)
(* Properties of a run.                                                    *)
(***************************************************************************)
\* the model whose values the run validates, read off the command line
InputModel == determine_color_model(args)

\* the values of the input model pass its validator
ValidInput == InputModel # NONE /\ Validated(args, InputModel).ok

\* the positions of a run that has not ended: each has its next step
RUNNING == {"start", "main", "rgb2rgb", "fanout", "recovery", "dump"}

DefaultCat == args.cat = Some(CHROMATIC_ADAPTATION_TRANSFORMS)

Printed == {i \in DOMAIN out : out[i].kind = "json"}

\* the run ended by printing the dictionary, once, as its last output
PrintedOnceLast ==
    /\ Len(out) = 1
    /\ out[1] = JsonDocument(res)

\* C1: an RGB run with valid values, a known input colourspace and the
\* default --cat list never raises, whatever the illuminant list; it goes on
\* until it has printed the dictionary, exactly once and as its last step.
C1_RgbRunCompletes ==
    (/\ InputModel = "RGB"
     /\ ValidInput
     /\ args.input_colorspace \in DOMAIN RGB_COLOURSPACES
     /\ DefaultCat)
    => /\ exc = NoExc
       /\ pc \notin {"raised", "exit"}
       /\ pc = "done" => PrintedOnceLast
       /\ pc # "done" => out = <<>> /\ pc \in RUNNING

C1_Witness ==
    /\ InputModel = "RGB"
    /\ ValidInput
    /\ args.input_colorspace \in DOMAIN RGB_COLOURSPACES
    /\ DefaultCat
    /\ args.illuminant_list = "All"
    /\ pc = "done"
    /\ Len(calls) = Len(STANDARD_OBSERVERS) * Len(RGB_ILLUMINANTS_LIST)
    /\ PrintedOnceLast

\* C2: a run of a non-RGB input model whose values pass the validator never
\* stops on an exception: every name it reads is bound to a usable value.
C2_NonRgbRunCompletes ==
    (InputModel \notin {NONE, "RGB"} /\ ValidInput)
    => /\ exc = NoExc
       /\ pc # "raised"
       /\ pc = "done" => PrintedOnceLast

\* the models whose input values are all on the command line
Supplied(m) == \A n \in Range(MODEL_ARGS[m]) : args[n] # NoneVal
SuppliedModels == {m \in Range(MODELS) : Supplied(m)}

\* C3: an accepted command line supplies the full set of exactly one model,
\* the one determine_color_model returned; a command line with the full
\* sets of two models is not accepted.
C3_ExactlyOneModel ==
    pc \notin {"start", "exit"} => SuppliedModels = {model}

\* C4: determine_color_model returns None exactly when no model has all of
\* its values supplied, 0 counting as supplied; the run then writes the
\* message on stderr and exits with status 2, with nothing validated,
\* converted or printed as JSON.
C4_NoFullSetIsAnError ==
    /\ InputModel = NONE <=> SuppliedModels = {}
    /\ pc # "start" => (model = NONE <=> SuppliedModels = {})
    /\ pc = "exit" => SuppliedModels = {}
    /\ (pc # "start" /\ SuppliedModels = {})
       => /\ pc = "exit"
          /\ exitStatus = 2
          /\ stderr = <<"Error: Full set of input values for one of the color models is required">>
          /\ validated = <<>>
          /\ res = TemplatesRes
          /\ nresult = 0
          /\ calls = <<>>
          /\ Printed = {}
          /\ exc = NoExc

C4_Witness ==
    /\ pc = "exit"
    /\ exitStatus = 2
    /\ args.red = Some(0)
    /\ args.green = Some(0)
    /\ args.blue = NoneVal

\* C5: when an RGB run is over, every (observer, illuminant) pair that was
\* not skipped has, under each model stored per observer, illuminant and
\* transform, one entry for every transform of the --cat list.
C5_EveryCatRecorded ==
    (/\ InputModel = "RGB"
     /\ pc = "done"
     /\ args.cat # NoneVal
     /\ XYZ_MODELS \subseteq DOMAIN res)
    => \A i \in DOMAIN calls :
          ~Skipped("RGB", calls[i][1], calls[i][2])
          => \A j \in DOMAIN args.cat[1] : \A m \in XYZ_MODELS :
                HasKey(res[m], <<calls[i][1], calls[i][2]>>, args.cat[1][j])

\* the calls the fan-out is to make: observers outside, illuminants inside
SelectedIlluminants ==
    CASE args.illuminant_list = "All" -> RGB_ILLUMINANTS_LIST
      [] args.illuminant_list = "CIE" -> CIE_ILLUMINANTS_LIST
      [] args.illuminant_list = "ISO_7589" -> ISO_7589_ILLUMINANTS_LIST

FanOutPairs ==
    LET n == Len(SelectedIlluminants)
    IN [k \in 1..(Len(STANDARD_OBSERVERS) * n) |->
            <<STANDARD_OBSERVERS[((k - 1) \div n) + 1],
              SelectedIlluminants[((k - 1) % n) + 1]>>]

\* C6: the fan-out calls convert_with_xyz once for every pair of a standard
\* observer and an illuminant of the selected list, observers in the outer
\* loop, illuminants in list order: the calls made so far are the first
\* pairs of that sequence, and a fan-out that has started makes them all.
C6_FanOutCallsEveryPair ==
    /\ Len(calls) <= Len(FanOutPairs)
    /\ \A i \in DOMAIN calls : calls[i] = FanOutPairs[i]
    /\ pc \in {"recovery", "dump", "done"} => calls = FanOutPairs
    /\ (pc = "raised" /\ calls # <<>>) => calls = FanOutPairs

\* the path below res[model] the value of a call is to be stored at
StoredAt(c) ==
    IF c.observer # FALSE_ /\ c.cat # NONE
    THEN <<c.observer, c.illuminant, c.cat>>
    ELSE IF c.observer # FALSE_ THEN <<c.observer, c.illuminant>>
    ELSE IF c.illuminant # FALSE_ /\ c.cat # NONE THEN <<c.illuminant, c.cat>>
    ELSE IF c.illuminant # FALSE_ THEN <<c.illuminant>>
    ELSE <<"None">>

\* the value as the entry holds it: keyed by the codes of the entry if it
\* has codes
StoredValue(entry, value) ==
    IF <<"codes">> \in DOMAIN entry
    THEN ZipCodes(entry[<<"codes">>].v,
                  IF value.t = "array" THEN Items(value) ELSE <<value>>)
    ELSE Leaf(value)

ResultStored ==
    (nresult' = nresult + 1 /\ exc' = NoExc)
    => LET c == last'
       IN /\ DOMAIN res' = DOMAIN res
          /\ Sub(res'[c.m], StoredAt(c)) = StoredValue(res[c.m], c.value)
          /\ \A m \in DOMAIN res \ {c.m} : res'[m] = res[m]

\* C7: a call of result that returns has stored the value under res[model]
\* at observer, illuminant, cat (observer and cat given), at observer,
\* illuminant (observer given, no cat), at illuminant, cat or at illuminant
\* (illuminant only), or at 'None' (neither), and has left the entry of
\* every other model as it was.
C7_ResultStoresAtLocation == [][ResultStored]_vars

C7_Witness ==
    /\ nresult = MaxResultCalls
    /\ exc = NoExc
    /\ last.observer # FALSE_
    /\ last.cat # NONE
    /\ last.m = "cielab"
    /\ HasKey(res["cielab"], <<last.observer, last.illuminant>>, last.cat)
    /\ HasKey(res["pointer"], <<>>, "None")

\* C8: in a run without --precalc every model entry of res keeps the keys
\* of its template with the template's values, and no key a result is
\* stored under is a metadata key.
C8_MetadataKept ==
    args.precalc = ""
    => \A m \in DOMAIN res \cap TEMPLATE_MODELS :
          /\ \A k \in DOMAIN COLOR_MODELS_TEMPLATES[m] :
                /\ <<k>> \in DOMAIN res[m]
                /\ res[m][<<k>>] = COLOR_MODELS_TEMPLATES[m][k]
          /\ \A q \in DOMAIN res[m] :
                (q # <<>> /\ q[1] \in METADATA_KEYS)
                => Len(q) = 1 /\ q[1] \in DOMAIN COLOR_MODELS_TEMPLATES[m]

C8_Witness ==
    /\ args.precalc = ""
    /\ pc = "done"
    /\ args.cat = Some(<<"CAT02", "Bradford">>)
    /\ HasKey(res["cielab"], <<STANDARD_OBSERVERS[1], ISO_7589_ILLUMINANTS_LIST[1]>>,
              "Bradford")
    /\ HasKey(res["pointer"], <<>>, "None")
    /\ HasKey(res["ProPhoto RGB"], <<"D50">>, "CAT02")

\* C9: a run parses, determines the model, validates, fans out and prints,
\* in this order: result is not called before the validator of the input
\* model has returned, and a run whose values passed the validator ends
\* having printed the dictionary exactly once, after its last result call.
C9_FixedOrder ==
    /\ nresult > 0 => (ValidInput /\ validated # <<>>)
    /\ Cardinality(Printed) <= 1
    /\ (ValidInput /\ pc \notin RUNNING) => (pc = "done" /\ PrintedOnceLast)

\* the maximum of each bit depth
RGB_MAXIMUM(b) ==
    CASE b = "8" -> 255 [] b = "15+1" -> 32768 [] b = "16" -> 65535 [] b = "32" -> 1

\* C10: validate_rgb_values accepts the three values exactly when each lies
\* between 0 and the maximum of the bit depth, both included; it then
\* returns them unchanged with that maximum as factor, and raises
\* ValueError otherwise.
C10_RgbAcceptedIffInRange ==
    (model = "RGB" /\ pc \notin {"start", "main"})
    => LET rgb == <<args.red[1], args.green[1], args.blue[1]>>
           inRange == \A i \in 1..3 :
                         0 <= rgb[i] /\ rgb[i] <= RGB_MAXIMUM(args.bitdepth)
       IN /\ inRange
             => /\ validated = [vals |-> rgb, factor |-> RGB_MAXIMUM(args.bitdepth)]
                /\ exc = NoExc \/ exc[1] # "ValueError"
          /\ ~inRange
             => /\ pc = "raised"
                /\ exc[1] = "ValueError"
                /\ validated = <<>>
                /\ nresult = 0

C10_Witness ==
    /\ model = "RGB"
    /\ pc = "done"
    /\ args.bitdepth = "16"
    /\ args.red = Some(65535)
    /\ args.green = Some(0)
    /\ validated.factor = 65535
    /\ validated.vals[1] = 65535

(***************************************************************************)
(* The validators on their own: one call of the validator of a model, on   *)
(* values at and around the ends of every range the validators test.       *)
(***************************************************************************)
\* lightness values around the ends of the L range of every bit depth
LIGHTNESS_BOUNDARY == {-1, 0, 1, 2, 100, 101, 32768, 32769, 65535, 65536}

\* values around the ends of the range r = <<lo, hi>>, and 0
Around(r) == {r[1] - 1, r[1], 0, r[2], r[2] + 1}

\* the second and third value of each lightness-based model
SECOND_BOUNDARY(m, b) ==
    CASE m = "CIELAB" -> Around(CIELAB_DEPTH_VALUES[b].ab)
      [] m = "CIELUV" -> Around(CIELUV_VALUE_RANGES[b].u_v_val)
      [] m = "CIELCHab" -> Around(<<0, 230>>)
      [] OTHER -> Around(<<0, CIELCHUV_DEPTH_VALUES[b].Ch[2] \div 100>>)

THIRD_BOUNDARY(m, b) ==
    CASE m = "CIELAB" -> Around(CIELAB_DEPTH_VALUES[b].ab)
      [] m = "CIELUV" -> Around(CIELUV_VALUE_RANGES[b].u_v_val)
      [] m = "CIELCHab" -> Around(<<0, 360>>)
      [] OTHER -> Around(<<0, CIELCHUV_DEPTH_VALUES[b].uv[2] \div 100>>)

LIGHTNESS_MODELS == {"CIELAB", "CIELCHab", "CIELUV", "CIELCHuv"}

LightnessBoundaryArgs ==
    UNION { { Namespace([ShortOptions EXCEPT !.bitdepth = b], InputsFor(m, xs))
                : xs \in LIGHTNESS_BOUNDARY \X SECOND_BOUNDARY(m, b)
                            \X THIRD_BOUNDARY(m, b) }
            : m \in LIGHTNESS_MODELS, b \in BITDEPTHS }

\* wavelengths around the ends of the visible spectrum
WAVE_BOUNDARY == {0, VIS_SPECTRUM_MIN - 1, VIS_SPECTRUM_MIN, VIS_SPECTRUM_MIN + 1,
                  VIS_SPECTRUM_MAX - 1, VIS_SPECTRUM_MAX, VIS_SPECTRUM_MAX + 1}

WaveBoundaryArgs ==
    { Namespace(ShortOptions, InputsFor("Wavelength", <<w>>)) : w \in WAVE_BOUNDARY }

\* start, stop and interval around the ends of the ranges the function
\* tests and of those the help of --start, --stop and --interval gives
START_BOUNDARY == {359, 360, 379, 380, 400, 750, 751, 780, 790, 791}
STOP_BOUNDARY == {399, 400, 401, 750, 780, 781, 830, 831}
INTERVAL_BOUNDARY == {0, 1, 3, 20, 21}

\* n data values, all v
Repeat(n, v) == [i \in 1..n |-> v]

\* the data lists tried with start, stop and interval: the length that
\* matches, one less, one more, values outside 0-1 at either end, and nan
DataFor(start, stop, interval) ==
    LET n == IF interval >= 1 /\ stop > start
             THEN ((stop - start) \div interval) + 1
             ELSE 2
    IN { Repeat(n, 1), Repeat(n, 0), Repeat(n - 1, 1), Repeat(n + 1, 1),
         Repeat(n - 1, 1) \o <<2>>, <<-1>> \o Repeat(n - 1, 0),
         Repeat(n - 1, 1) \o <<NaN>> }

SpectrumBoundaryArgs ==
    UNION { { Namespace(ShortOptions,
                        InputsFor("Spectrum", <<xs[1], xs[2], xs[3], d>>))
                : d \in DataFor(xs[1], xs[2], xs[3]) }
            : xs \in START_BOUNDARY \X STOP_BOUNDARY \X INTERVAL_BOUNDARY }

InitValidate ==
    /\ args \in LightnessBoundaryArgs \cup WaveBoundaryArgs
                    \cup SpectrumBoundaryArgs
    /\ pc = "validate"
    /\ model = determine_color_model(args)
    /\ res = TemplatesRes
    /\ g = Unbound
    /\ validated = <<>>
    /\ csIdx = 1
    /\ obsIdx = 1
    /\ illIdx = 1
    /\ calls = <<>>
    /\ nresult = 0
    /\ last = NoCall
    /\ exc = NoExc
    /\ exitStatus = -1
    /\ stderr = <<>>
    /\ out = <<>>
    /\ decoded = {}

\* the call of the model's validator: it returns the values and the factor
\* or raises ValueError
Validate ==
    /\ pc = "validate"
    /\ LET v == Validated(args, model)
       IN IF v.ok
          THEN /\ validated' = [vals |-> v.vals, factor |-> v.factor]
               /\ pc' = "returned"
               /\ exc' = exc
          ELSE /\ exc' = Raise(Raised(v), model, "validate")
               /\ pc' = "raised"
               /\ validated' = validated
    /\ UNCHANGED <<args, model, res, g, csIdx, obsIdx, illIdx, calls, nresult,
                   last, exitStatus, stderr, out, decoded>>

SpecValidate == InitValidate /\ [][Validate]_vars

\* the values handed to the validator, and whether it accepted them
Inputs == [i \in DOMAIN MODEL_ARGS[model] |-> args[MODEL_ARGS[model][i]][1]]
Accepted == pc = "returned" /\ exc = NoExc /\ validated # <<>>
Rejected == pc = "raised" /\ exc = Raise("ValueError", model, "validate")
                /\ validated = <<>>

\* the ranges of L and of a/b (u/v) at each bit depth
LAB_LUV_RANGES == [b \in BITDEPTHS |->
    CASE b = "8" -> <<0, 100, -200, 200>>
      [] b = "15+1" -> <<0, 32768, -25600, 25600>>
      [] b = "16" -> <<0, 65535, -51200, 51200>>
      [] b = "32" -> <<0, 1, -1, 1>>]

FACTOR_OF == [b \in BITDEPTHS |->
    CASE b = "8" -> 255 [] b = "15+1" -> 32768 [] b = "16" -> 65535
      [] b = "32" -> 1]

C12_SameLightnessRange ==
    (model \in LIGHTNESS_MODELS /\ pc # "validate"
        /\ Inputs[2] = 0 /\ Inputs[3] = 0)
    => LET r == LAB_LUV_RANGES[args.bitdepth]
       IN Accepted <=> (r[1] <= Inputs[1] /\ Inputs[1] <= r[2])

\* C13: validate_wave_value accepts a wavelength exactly when it lies in
\* the visible spectrum, 360 nm <= wave <= 830 nm with both ends included,
\* and then returns it unchanged; any other value raises ValueError.
C13_WaveAcceptedIffVisible ==
    (model = "Wavelength" /\ pc # "validate")
    => LET wave == args.wave[1]
       IN /\ (360 <= wave /\ wave <= 830)
             => (Accepted /\ validated.vals = <<wave>>)
          /\ ~(360 <= wave /\ wave <= 830) => Rejected

C13_Witness ==
    /\ model = "Wavelength"
    /\ args.wave = Some(830)
    /\ Accepted
    /\ validated.vals = <<830>>
    /\ ~validate_wave_value(831).ok
    /\ validate_wave_value(360).ok
    /\ ~validate_wave_value(359).ok

\* the data list has the length start, stop and interval call for and
\* every value of it lies in 0-1
DataMatches(start, stop, interval, data) ==
    /\ Len(data) = ((stop - start) \div interval) + 1
    /\ \A i \in DOMAIN data : 0 <= data[i] /\ data[i] <= 1

\* C14: a spectral input is accepted over the ranges the help documents:
\* every start in 360..790, stop in 400..830 and interval in 1..20, given
\* stop > start, a data list of the matching length and values within 0-1.
C14_HelpRangesAccepted ==
    (model = "Spectrum" /\ pc # "validate")
    => LET start == args.start[1]
           stop == args.stop[1]
           interval == args.interval[1]
       IN (/\ 360 <= start /\ start <= 790
           /\ 400 <= stop /\ stop <= 830
           /\ 1 <= interval /\ interval <= 20
           /\ stop > start
           /\ DataMatches(start, stop, interval, args.data[1]))
          => Accepted

\* start, stop and interval lie in the ranges validate_spectrum_values tests
SpectrumInRange ==
    /\ 380 <= args.start[1] /\ args.start[1] <= 750
    /\ 400 <= args.stop[1] /\ args.stop[1] <= 780
    /\ 1 <= args.interval[1] /\ args.interval[1] <= 20

\* C15: validate_spectrum_values accepts in-range (start, stop, interval,
\* data) only if stop > start, len(data) is floor((stop - start) / interval)
\* + 1 and every data value lies in [0, 1]; each violation raises ValueError;
\* the interval is tested before it divides, so no division by zero occurs.
C15_SpectrumAcceptedOnlyIfConsistent ==
    (model = "Spectrum" /\ pc # "validate")
    => /\ Accepted \/ Rejected
       /\ Accepted
          => /\ SpectrumInRange
             /\ args.stop[1] > args.start[1]
             /\ DataMatches(args.start[1], args.stop[1], args.interval[1],
                            args.data[1])
             /\ validated.vals = Inputs
       /\ args.interval[1] < 1 => Rejected

\* C16: an RGB input whose --input_colorspace is no key of RGB_COLOURSPACES
\* ends by printing {"error": "RGB color space lookup failure"}: once res is
\* the error object no later step raises or adds to it.
C16_LookupFailurePrinted ==
    (InputModel = "RGB" /\ ValidInput
        /\ args.input_colorspace \notin DOMAIN RGB_COLOURSPACES)
    => /\ exc = NoExc
       /\ pc \in RUNNING \cup {"done"}
       /\ pc \in {"fanout", "recovery", "dump", "done"} => res = ERROR_RES
       /\ pc = "done" => out = <<JsonDocument(ERROR_RES)>>

\* the transforms of the --cat list
CatList == IF args.cat = NoneVal THEN <<>> ELSE args.cat[1]

\* one convert_rgb_to_rgb call, for the colourspace id the loop is at
RgbToRgbRecorded ==
    pc = "rgb2rgb"
    => LET colorspaceid == RGB_COLOURSPACES_KEYS[csIdx]
           wp == whitepoint_name(colorspaceid)
           same == whitepoint_name(args.input_colorspace) = wp
       IN /\ exc' = NoExc
          /\ colorspaceid \in COLOR_MODELS_ALIASES
             => (res' = res /\ nresult' = nresult)
          /\ (colorspaceid \notin COLOR_MODELS_ALIASES /\ same)
             => /\ nresult' = nresult + 1
                /\ last'.m = colorspaceid
                /\ last'.cat = NONE
                /\ last'.value.v[4] = NONE
                /\ Sub(res'[colorspaceid], <<wp>>)
                      = StoredValue(res[colorspaceid], last'.value)
          /\ (colorspaceid \notin COLOR_MODELS_ALIASES /\ ~same)
             => /\ nresult' = nresult + Len(CatList)
                /\ \A j \in DOMAIN CatList :
                      Sub(res'[colorspaceid], <<wp, CatList[j]>>)
                         = StoredValue(res[colorspaceid],
                              Array(3, <<"RGB_to_RGB", args.input_colorspace,
                                         colorspaceid, CatList[j]>>))
                /\ \A c \in Range(CHROMATIC_ADAPTATION_TRANSFORMS) :
                      HasKey(res'[colorspaceid], <<wp>>, c)
                         => \E j \in DOMAIN CatList : CatList[j] = c

\* C17: convert_rgb_to_rgb, for a target colourspace that is no alias:
\* with the same whitepoint name as the input colourspace it records
\* exactly one result, computed and stored with cat None at
\* res[target][whitepoint]; otherwise one result per transform of the --cat
\* list at res[target][whitepoint][cat].  An alias records nothing.
C17_RgbToRgbResults == [][RgbToRgbRecorded]_vars

\* C18: for an RGB input the decoding transfer function of the input
\* colourspace is applied exactly once to the normalised values on every
\* conversion path: the values RGB_to_RGB converts in convert_rgb_to_rgb
\* and those RGB_to_XYZ converts in convert_with_xyz are linearised once.
C18_DecodedExactlyOnce ==
    model = "RGB" => \A d \in decoded : d.decodings = 1

(***************************************************************************)
(* convert_xyz_to_rgb on its own: one call, for any colourspace id,        *)
(* observer and illuminant of the list, in the state convert_with_xyz      *)
(* calls it in (lines 3828-3831): a non-RGB input, the names of the        *)
(* model's branch and of convert_with_xyz bound, cat None.                 *)
(***************************************************************************)
InitXyzToRgb ==
    /\ args \in { a \in OptionArgs \cup ValueArgs :
                    /\ determine_color_model(a) \notin {NONE, "RGB"}
                    /\ Validated(a, determine_color_model(a)).ok }
    /\ pc = "xyz2rgb"
    /\ model = determine_color_model(args)
    /\ res = MergePrecalc(TemplatesRes, args.precalc)
    /\ g = Bind(Bind(Unbound, MainBinds(args, model), "value"),
                (CONVERT_WITH_XYZ_GLOBALS \cap GLOBAL_NAMES)
                    \cup {"observer", "illuminant"}, "value")
    /\ validated = [vals |-> Validated(args, model).vals,
                    factor |-> Validated(args, model).factor]
    /\ csIdx \in DOMAIN RGB_COLOURSPACES_KEYS
    /\ obsIdx \in DOMAIN STANDARD_OBSERVERS
    /\ illIdx \in DOMAIN IlluminantList(args)
    /\ calls = <<>>
    /\ nresult = 0
    /\ last = NoCall
    /\ exc = NoExc
    /\ exitStatus = -1
    /\ stderr = <<>>
    /\ out = <<>>
    /\ decoded = {}

XyzToRgbCall ==
    /\ pc = "xyz2rgb"
    /\ LET st == convert_xyz_to_rgb(Thread(res, nresult, last), g,
                                    RGB_COLOURSPACES_KEYS[csIdx],
                                    STANDARD_OBSERVERS[obsIdx],
                                    IlluminantList(args)[illIdx], NONE)
       IN /\ res' = st.res
          /\ nresult' = st.n
          /\ last' = st.last
          /\ exc' = st.exc
          /\ pc' = IF st.exc # NoExc THEN "raised" ELSE "returned"
    /\ UNCHANGED <<args, model, g, validated, csIdx, obsIdx, illIdx, calls,
                   exitStatus, stderr, out, decoded>>

SpecXyzToRgb == InitXyzToRgb /\ [][XyzToRgbCall]_vars

\* the arguments of the call
CallColourspace == RGB_COLOURSPACES_KEYS[csIdx]
CallObserver == STANDARD_OBSERVERS[obsIdx]
CallIlluminant == IlluminantList(args)[illIdx]

\* the call has stored the RGB values of the colourspace
RgbRecorded ==
    /\ CallColourspace \in DOMAIN res
    /\ HasKey(res[CallColourspace], <<CallObserver>>, CallIlluminant)

RecordedUnder(s, observer, illuminant) ==
    s \in DOMAIN res /\ HasKey(res[s], <<observer>>, illuminant)

\* s is no alias and its template illuminant is 'all' or the illuminant
NativeIlluminant(s, illuminant) ==
    /\ s \notin COLOR_MODELS_ALIASES
    /\ COLOR_MODELS_TEMPLATES[s]["illuminant"] \in {Str("all"), Str(illuminant)}

\* C20: for a non-RGB input, once the run has ended, res holds a result of
\* convert_xyz_to_rgb for RGB colourspace s under (observer, illuminant),
\* for every pair of the fan-out whose illuminant is available, exactly
\* when s is no alias and the template illuminant of s is 'all' or that
\* illuminant: each colourspace has results under its own illuminant only.
C20_RgbResultsUnderNativeIlluminant ==
    (InputModel \notin {NONE, "RGB"} /\ ValidInput /\ pc \in {"done", "raised"})
    => \A o \in Range(STANDARD_OBSERVERS), i \in Range(IlluminantList(args)),
          s \in Range(RGB_COLOURSPACES_KEYS) :
          ~Skipped(InputModel, o, i)
          => (RecordedUnder(s, o, i) <=> NativeIlluminant(s, i))

(***************************************************************************)
(* One result() call on values of every shape: a number, a string, a       *)
(* dictionary, lists and arrays shorter than, as long as and longer than   *)
(* the codes, for models with one, three and seven codes and without.      *)
(***************************************************************************)
CODES_VALUES ==
    {Num(<<"value">>), StrVal(<<"value">>), MapVal(<<"value">>),
     List(<<"a", "b">>)}
        \cup {Array(k, <<"value">>) : k \in {0, 1, 2, 3, 4, 7, 8}}

CodesCalls ==
    { Call(m, v, i, o, c)
        : m \in {"cielab", "cct", "cam16", "hexadecimal", "pointer", "macadam"},
          v \in CODES_VALUES, i \in {FALSE_, "D65"},
          o \in {FALSE_, "CIE 1931 2 Degree Standard Observer"},
          c \in {NONE, "Bradford"} }

ResultCodesCall ==
    /\ pc = "result"
    /\ nresult = 0
    /\ \E c \in CodesCalls :
          LET st == ApplyResults(Thread(res, nresult, last), <<c>>)
          IN /\ res' = st.res
             /\ nresult' = st.n
             /\ last' = st.last
             /\ exc' = st.exc
    /\ UNCHANGED <<args, pc, model, g, validated, csIdx, obsIdx, illIdx, calls,
                   exitStatus, stderr, out, decoded>>

SpecResultCodes == InitResult /\ [][ResultCodesCall]_vars

\* the components of a value: the elements of a list or array, the value
\* itself in a one-element list otherwise
Components(value) ==
    IF value.t \in {"list", "array"} THEN Items(value) ELSE <<value>>

\* the tree pairs the first k codes, in order, with the first k components
PairsInOrder(tree, codes, comps) ==
    LET k == IF Len(codes) <= Len(comps) THEN Len(codes) ELSE Len(comps)
    IN IF k = 0 THEN tree = Leaf(EmptyDict)
       ELSE /\ DOMAIN tree = {<<codes[j]>> : j \in 1..k}
            /\ \A j \in 1..k : tree[<<codes[j]>>] = comps[j]

ResultCoded ==
    (nresult' = nresult + 1 /\ exc' = NoExc)
    => LET c == last'
           entry == res[c.m]
           stored == Sub(res'[c.m], StoredAt(c))
       IN IF <<"codes">> \in DOMAIN entry
          THEN PairsInOrder(stored, entry[<<"codes">>].v, Components(c.value))
          ELSE stored = Leaf(c.value)

\* C21: when the entry result() finds for the model (its template, unless
\* --precalc replaced it) has 'codes', the value is stored as a dictionary
\* pairing the codes, in order, with the components of the value: a scalar
\* or string is first wrapped in a one-element list, a list or array is
\* paired element by element, and the pairing stops at the shorter of the
\* two; without 'codes' the value is stored as given.
C21_ValueStoredByCodes == [][ResultCoded]_vars

C21_Witness ==
    /\ nresult = 1
    /\ exc = NoExc
    /\ last.m = "cam16"
    /\ last.value = Array(8, <<"value">>)
    /\ last.illuminant = "D65"
    /\ last.observer = FALSE_
    /\ last.cat = NONE
    /\ res["cam16"][<<"D65", "H">>] = Num(<<"value", "7">>)
    /\ ~HasKey(res["cam16"], <<"D65">>, "8")
    /\ Cardinality(PathsUnder(res["cam16"], <<"D65">>)) = 7

\* the values on the command line are outside what the input model allows:
\* an RGB value outside the range of the bit depth, a wavelength outside
\* 360-830, a spectrum whose stop is not above its start
OutOfRangeInput ==
    CASE InputModel = "RGB" ->
            \E n \in {"red", "green", "blue"} :
                args[n][1] < 0 \/ args[n][1] > RGB_MAXIMUM(args.bitdepth)
      [] InputModel = "Wavelength" -> args.wave[1] < 360 \/ args.wave[1] > 830
      [] InputModel = "Spectrum" -> args.stop[1] <= args.start[1]
      [] OTHER -> FALSE

\* the run has stopped in the validator
StoppedInValidator ==
    /\ pc = "raised"
    /\ exc = Raise("ValueError", model, "validate")

\* C22: when the validator of the input model raises ValueError (a value
\* out of range for the bit depth, a bad spectrum shape, a wavelength
\* outside 360-830) the run stops there: no result() call has been made,
\* res is the templates plus the --precalc entries, nothing is printed.
C22_ValueErrorStopsRun ==
    /\ (exc # NoExc /\ exc[1] = "ValueError")
       => /\ StoppedInValidator
          /\ ~Validated(args, model).ok
          /\ nresult = 0
          /\ calls = <<>>
          /\ res = MergePrecalc(TemplatesRes, args.precalc)
          /\ out = <<>>
    /\ OutOfRangeInput => (pc \in {"start", "main"} \/ StoppedInValidator)

C22_Witness ==
    /\ StoppedInValidator
    /\ model = "Wavelength"
    /\ args.wave = Some(831)
    /\ args.precalc = "cct"
    /\ res = MergePrecalc(TemplatesRes, "cct")
    /\ res # TemplatesRes
    /\ nresult = 0
    /\ out = <<>>

====
